---- MODULE Spec2Model ----
(***************************************************************************)
(* Model of pyrasterframes/types.py: the GTCellType name resolution, the   *)
(* Tile value, the TileUDT codec (serialize / deserialize) and the         *)
(* RasterFrame accessors, together with the remote calls they issue.       *)
(*                                                                         *)
(* Python strings are sequences of one-character strings, so endswith,     *)
(* the "in" substring test and slicing are computed as the code does.      *)
(* Python values are records tagged by a "kind" field.                     *)
(***************************************************************************)
EXTENDS Integers, Sequences, FiniteSets, TLC

VARIABLES
    name,          \* GTCellType.cell_type_name handed to to_numpy_dtype
    dtype_result,  \* what to_numpy_dtype returned or raised; NotRun before
    tile,          \* the Tile handed to TileUDT.serialize
    pc,            \* position in the codec pipeline
    record,        \* the list TileUDT.serialize returned
    datum,         \* the row handed to TileUDT.deserialize
    result,        \* what TileUDT.deserialize returned
    frame,         \* the receiver RasterFrame: its _jdf and its _jrfctx
    ret,           \* what the last RasterFrame accessor returned
    active,        \* SparkContext._active_spark_context._rf_context, or None
    op,            \* the last operation run
    calls,         \* the remote-engine invocations of the last operation
    exc            \* the exception the last operation raised, or NoExc

ctVars == <<name, dtype_result>>
codecVars == <<tile, pc, record, datum, result>>
frameVars == <<frame, ret>>
sharedVars == <<active, op, calls, exc>>
vars == <<name, dtype_result, tile, pc, record, datum, result, frame, ret,
          active, op, calls, exc>>

None == [kind |-> "None"]
NotRun == [kind |-> "NotRun"]
NoExc == "none"

(***************************************************************************)
(* Strings                                                                 *)
(***************************************************************************)
RAW == <<"r", "a", "w">>
UD == <<"u", "d">>
INT8 == <<"i", "n", "t", "8">>
UINT8 == <<"u", "i", "n", "t", "8">>
INT16 == <<"i", "n", "t", "1", "6">>
BOOL == <<"b", "o", "o", "l">>

\* str.endswith
EndsWith(s, suf) ==
    /\ Len(s) >= Len(suf)
    /\ SubSeq(s, Len(s) - Len(suf) + 1, Len(s)) = suf

\* the substring test: sub in s
Contains(s, sub) ==
    \E i \in 1..(Len(s) - Len(sub) + 1) : SubSeq(s, i, i + Len(sub) - 1) = sub

\* s[:-n] for n > 0
DropLast(s, n) == SubSeq(s, 1, Len(s) - n)

(***************************************************************************)
(* numpy                                                                   *)
(***************************************************************************)
\* the names numpy.dtype accepts, among those the model draws
NumpyNames == {INT8, UINT8, INT16, BOOL}

\* numpy.dtype(name): the element type, or TypeError for a name numpy
\* does not understand
np_dtype(n) ==
    IF n \in NumpyNames THEN [kind |-> "dtype", name |-> n]
    ELSE [kind |-> "TypeError"]

\* the error GTCellType.to_numpy_dtype raises for user-defined NoData:
\* Exception("Cell types with user-defined NoData values are not yet implemented.")
UnsupportedFeature ==
    [kind |-> "Exception",
     msg |-> "Cell types with user-defined NoData values are not yet implemented."]

(***************************************************************************)
(* GTCellType                                                              *)
(***************************************************************************)
\* to_numpy_dtype with the "ud" test left out
RECURSIVE to_numpy_dtype_no_ud(_)
to_numpy_dtype_no_ud(n) ==
    IF EndsWith(n, RAW) THEN to_numpy_dtype_no_ud(DropLast(n, 3))
    ELSE np_dtype(n)

\* to_numpy_dtype stripping "raw" once, without recursing
to_numpy_dtype_once(n) ==
    IF EndsWith(n, RAW) THEN np_dtype(DropLast(n, 3))
    ELSE IF Contains(n, UD) THEN UnsupportedFeature
    ELSE np_dtype(n)

RECURSIVE to_numpy_dtype(_)
to_numpy_dtype(n) ==
    IF EndsWith(n, RAW) THEN to_numpy_dtype(DropLast(n, 3))
    ELSE IF Contains(n, UD) THEN UnsupportedFeature
    ELSE np_dtype(n)

\* GTCellType.from_numpy_dtype: the cell type named str(np_dtype)
from_numpy_dtype(d) == d.name

(***************************************************************************)
(* Inputs of the cell-type specification                                   *)
(***************************************************************************)
MaxSuffix == 3

BaseNames == NumpyNames \cup {<<>>}
Pieces == {RAW, UD \o <<"1">>, <<"u">>, <<"d">>, <<"r", "a">>, <<"w">>}

RECURSIVE Suffixes(_)
Suffixes(k) ==
    IF k = 0 THEN {<<>>}
    ELSE LET S == Suffixes(k - 1)
         IN S \cup {s \o p : s \in S, p \in Pieces}

CellTypeNames == {b \o s : b \in BaseNames, s \in Suffixes(MaxSuffix)}

RECURSIVE RawRep(_)
RawRep(k) == IF k = 0 THEN <<>> ELSE RAW \o RawRep(k - 1)

Resolve ==
    /\ dtype_result = NotRun
    /\ dtype_result' = to_numpy_dtype(name)
    /\ UNCHANGED <<name, codecVars, frameVars, sharedVars>>

(***************************************************************************)
(* Python values                                                           *)
(***************************************************************************)
PyList(xs) == [kind |-> "list", items |-> xs]
ByteArray(bs) == [kind |-> "bytearray", bytes |-> bs]

\* SparkContext._active_spark_context is None: no engine context is bound
NoCtx == 0
NumCtx == 2
Contexts == 1..NumCtx

(***************************************************************************)
(* numpy arrays                                                            *)
(***************************************************************************)
NdArray(d, rows) == [kind |-> "ndarray", dtype |-> d, data |-> rows]

\* ndarray.shape of a 2-D array: (rows, cols)
Shape(a) == <<Len(a.data), Len(a.data[1])>>

\* ndarray.flatten().tolist(): the values in row-major order
RECURSIVE FlattenRows(_)
FlattenRows(rows) ==
    IF rows = <<>> THEN <<>> ELSE Head(rows) \o FlattenRows(Tail(rows))

Flatten(a) == FlattenRows(a.data)

\* the width in bits and the signedness of an integer element type
Bits(d) == IF d.name = INT16 THEN 16 ELSE 8
Signed(d) == d.name \in {INT8, INT16}

\* the cast of one value by ndarray.astype: integers wrap to the width
Cast(v, d) ==
    IF d.name = BOOL THEN (IF v = 0 THEN 0 ELSE 1)
    ELSE IF Signed(d)
         THEN ((v + 2 ^ (Bits(d) - 1)) % (2 ^ Bits(d))) - 2 ^ (Bits(d) - 1)
         ELSE v % (2 ^ Bits(d))

\* numpy.reshape(values, (rows, cols), order='C').astype(d)
ReshapeAsType(values, rows, cols, d) ==
    NdArray(d, [i \in 1..rows |->
                  [j \in 1..cols |-> Cast(values[(i - 1) * cols + j], d)]])

(***************************************************************************)
(* Tile                                                                    *)
(***************************************************************************)
\* Tile.__init__
Tile(cells) ==
    [kind |-> "Tile", cells |-> cells, cell_type |-> from_numpy_dtype(cells.dtype)]

\* dimensions returning the buffer's shape as it is: rows, cols
dimensions_unswapped(t) == <<Shape(t.cells)[1], Shape(t.cells)[2]>>

\* Tile.dimensions: [shape[1], shape[0]], that is cols, rows
dimensions(t) == <<Shape(t.cells)[2], Shape(t.cells)[1]>>

(***************************************************************************)
(* The remote engine's byte conversions and RFContext.call                 *)
(***************************************************************************)
\* one value as two bytes, most significant first
RECURSIVE EncodeValues(_)
EncodeValues(xs) ==
    IF xs = <<>> THEN <<>>
    ELSE <<Head(xs) \div 256, Head(xs) % 256>> \o EncodeValues(Tail(xs))

RECURSIVE DecodeBytes(_)
DecodeBytes(bs) ==
    IF Len(bs) < 2 THEN <<>>
    ELSE <<bs[1] * 256 + bs[2]>> \o DecodeBytes(SubSeq(bs, 3, Len(bs)))

\* _list_to_bytearray(values, cols, rows)
list_to_bytearray(args) == EncodeValues(args.values)

\* _bytearray_to_list(bytes, cell_type_name, cols, rows)
bytearray_to_list(args) == DecodeBytes(args.bytes.bytes)

Remote(method, args) ==
    IF method = "_list_to_bytearray" THEN list_to_bytearray(args)
    ELSE bytearray_to_list(args)

Shim == "RFContext.call"
Direct == "_jrfctx"

\* RFContext.call(method, *args): the active context's method, invoked.
\* ok is whether the remote invocation succeeds.
RFContext_call(act, method, args, ok) ==
    IF act = NoCtx
    THEN [exc |-> "NoActiveContext", val |-> None, calls |-> <<>>]
    ELSE LET c == [via |-> Shim, ctx |-> act, method |-> method, ok |-> ok]
         IN IF ok
            THEN [exc |-> NoExc, val |-> Remote(method, args), calls |-> <<c>>]
            ELSE [exc |-> "RemoteCallError", val |-> None, calls |-> <<c>>]

(***************************************************************************)
(* TileUDT.sqlType and the rows built from it                              *)
(***************************************************************************)
Leaf(t) == [kind |-> "leaf", type |-> t]
Struct(fs) == [kind |-> "struct", fields |-> fs]
Field(n, t, nullable) == [name |-> n, type |-> t, nullable |-> nullable]

\* RasterSourceUDT.sqlType
RasterSourceType ==
    Struct(<<Field("raster_source_kryo", Leaf("binary"), FALSE)>>)

CellTypeStruct == Struct(<<Field("cellTypeName", Leaf("string"), FALSE)>>)

DimensionsStruct ==
    Struct(<<Field("cols", Leaf("short"), FALSE),
             Field("rows", Leaf("short"), FALSE)>>)

CellDataStruct ==
    Struct(<<Field("cells", Leaf("binary"), TRUE),
             Field("ref",
                   Struct(<<Field("source", RasterSourceType, FALSE),
                            Field("bandIndex", Leaf("integer"), FALSE),
                            Field("subextent",
                                  Struct(<<Field("xmin", Leaf("double"), FALSE),
                                           Field("ymin", Leaf("double"), FALSE),
                                           Field("xmax", Leaf("double"), FALSE),
                                           Field("ymax", Leaf("double"), FALSE)>>),
                                  TRUE)>>),
                   TRUE)>>)

\* TileUDT.sqlType
sqlType ==
    Struct(<<Field("cell_context",
                   Struct(<<Field("cell_type", CellTypeStruct, FALSE),
                            Field("dimensions", DimensionsStruct, FALSE)>>),
                   FALSE),
             Field("cell_data", CellDataStruct, FALSE)>>)

\* the fields TileUDT.deserialize dereferences, as a row type
ReaderType ==
    Struct(<<Field("cell_context",
                   Struct(<<Field("cellType", CellTypeStruct, FALSE),
                            Field("dimensions", DimensionsStruct, FALSE)>>),
                   FALSE),
             Field("cell_data", CellDataStruct, FALSE)>>)

FieldNames(s) == {s.fields[i].name : i \in 1..Len(s.fields)}
FieldIndex(s, n) == CHOOSE i \in 1..Len(s.fields) : s.fields[i].name = n

\* the Row that names, by position, the values of a nested list after a
\* struct type (what the engine hands to deserialize)
RECURSIVE FromInternal(_, _)
FromInternal(s, v) ==
    IF s.kind = "leaf" THEN v
    ELSE IF v.kind = "None" THEN None
    ELSE [kind |-> "Row",
          f |-> [n \in FieldNames(s) |->
                   FromInternal(s.fields[FieldIndex(s, n)].type,
                                v.items[FieldIndex(s, n)])]]

\* attribute access on a Row: AttributeError when no field has the name
GetAttr(r, a) ==
    IF r.kind = "Row" /\ a \in DOMAIN r.f
    THEN [ok |-> TRUE, val |-> r.f[a]]
    ELSE [ok |-> FALSE, val |-> None]

RECURSIVE ReadPath(_, _)
ReadPath(d, path) ==
    IF path = <<>> THEN [ok |-> TRUE, val |-> d]
    ELSE LET g == GetAttr(d, Head(path))
         IN IF g.ok THEN ReadPath(g.val, Tail(path)) ELSE g

\* whether every path of struct type s names a field of row r
RECURSIVE Conforms(_, _)
Conforms(r, s) ==
    \/ s.kind = "leaf"
    \/ /\ s.kind = "struct"
       /\ \/ r.kind = "None"
          \/ /\ r.kind = "Row"
             /\ DOMAIN r.f = FieldNames(s)
             /\ \A n \in FieldNames(s) :
                    Conforms(r.f[n], s.fields[FieldIndex(s, n)].type)

(***************************************************************************)
(* TileUDT                                                                 *)
(***************************************************************************)
\* what an operation hands back: its return value, the exception it raised
\* and the remote invocations it made
Outcome(r, e, cs) == [ret |-> r, exc |-> e, calls |-> cs]

SerializedRow(t, bytes) ==
    PyList(<<PyList(<<PyList(<<t.cell_type>>), PyList(dimensions(t))>>),
             PyList(<<ByteArray(bytes), None>>)>>)

ListToBytearrayArgs(t) ==
    [values |-> Flatten(t.cells), cols |-> dimensions(t)[1], rows |-> dimensions(t)[2]]

\* serialize calling the remote a second time when the first call fails
serialize_retry(t, act, ok) ==
    LET g == RFContext_call(act, "_list_to_bytearray", ListToBytearrayArgs(t), ok)
    IN IF g.exc = NoExc
       THEN Outcome(SerializedRow(t, g.val), NoExc, g.calls)
       ELSE Outcome(None, g.exc, g.calls \o g.calls)

\* serialize invoking _list_to_bytearray on the context's handle itself
serialize_direct(t, act, ok) ==
    LET g == RFContext_call(act, "_list_to_bytearray", ListToBytearrayArgs(t), ok)
    IN Outcome(IF g.exc = NoExc THEN SerializedRow(t, g.val) ELSE None,
               g.exc,
               [i \in 1..Len(g.calls) |-> [g.calls[i] EXCEPT !.via = Direct]])

\* TileUDT.serialize
serialize(t, act, ok) ==
    LET g == RFContext_call(act, "_list_to_bytearray", ListToBytearrayArgs(t), ok)
    IN IF g.exc = NoExc
       THEN Outcome(SerializedRow(t, g.val), NoExc, g.calls)
       ELSE Outcome(None, g.exc, g.calls)

\* TileUDT.deserialize
deserialize(d, act, ok) ==
    LET ct == ReadPath(d, <<"cell_context", "cellType", "cellTypeName">>)
        cols == ReadPath(d, <<"cell_context", "dimensions", "cols">>)
        rows == ReadPath(d, <<"cell_context", "dimensions", "rows">>)
        cells == ReadPath(d, <<"cell_data", "cells">>)
    IN IF ~(ct.ok /\ cols.ok /\ rows.ok /\ cells.ok)
       THEN Outcome(None, "AttributeError", <<>>)
       ELSE LET g == RFContext_call(act, "_bytearray_to_list",
                                    [bytes |-> cells.val, cell_type_name |-> ct.val,
                                     cols |-> cols.val, rows |-> rows.val], ok)
            IN IF g.exc # NoExc THEN Outcome(None, g.exc, g.calls)
               ELSE IF Len(g.val) # rows.val * cols.val
               THEN Outcome(None, "ValueError", g.calls)
               ELSE LET dt == to_numpy_dtype(ct.val)
                    IN IF dt.kind # "dtype" THEN Outcome(None, dt.kind, g.calls)
                       ELSE Outcome(Tile(ReshapeAsType(g.val, rows.val, cols.val, dt)),
                                    NoExc, g.calls)

(***************************************************************************)
(* The codec specification: a tile is serialized, the row is named after   *)
(* a struct type, and the row is deserialized.                             *)
(***************************************************************************)
MaxRows == 2
MaxCols == 2
CellValues == {1, 300}
TileDtypes == {np_dtype(UINT8), np_dtype(INT16)}

\* the 2-D buffers of an element type, holding values the type represents
Buffers(d) ==
    UNION {[1..r -> [1..c -> {v \in CellValues : Cast(v, d) = v}]] :
               r \in 1..MaxRows, c \in 1..MaxCols}

Tiles == UNION {{Tile(NdArray(d, b)) : b \in Buffers(d)} : d \in TileDtypes}

Serialize ==
    /\ pc = "tile"
    /\ \E ok \in BOOLEAN :
        LET s == serialize(tile, active, ok)
        IN /\ record' = s.ret
           /\ exc' = s.exc
           /\ calls' = s.calls
           /\ pc' = IF s.exc = NoExc THEN "record" ELSE "done"
    /\ op' = "serialize"
    /\ UNCHANGED <<tile, datum, result, active, ctVars, frameVars>>

\* the engine hands deserialize the row named after TileUDT.sqlType
RowFromSqlType ==
    /\ pc = "record"
    /\ datum' = FromInternal(sqlType, record)
    /\ pc' = "datum"
    /\ UNCHANGED <<tile, record, result, sharedVars, ctVars, frameVars>>

\* a caller hands deserialize a row with the fields it dereferences
RowFromCaller ==
    /\ pc = "record"
    /\ datum' = FromInternal(ReaderType, record)
    /\ pc' = "datum"
    /\ UNCHANGED <<tile, record, result, sharedVars, ctVars, frameVars>>

Deserialize ==
    /\ pc = "datum"
    /\ \E ok \in BOOLEAN :
        LET s == deserialize(datum, active, ok)
        IN /\ result' = s.ret
           /\ exc' = s.exc
           /\ calls' = s.calls
    /\ pc' = "done"
    /\ op' = "deserialize"
    /\ UNCHANGED <<tile, record, datum, active, ctVars, frameVars>>

(***************************************************************************)
(* RasterFrame                                                             *)
(***************************************************************************)
NumJdf == 2
NumCols == 2
JDFs == 1..NumJdf

JavaObject(i) == [kind |-> "JavaObject", id |-> i]
Column(jc) == [kind |-> "Column", jc |-> jc]

\* the truth value Python gives a value: None is false, a Java object true
Truthy(v) == v.kind # "None"

\* RasterFrame.__init__: the dataset handle, and the _jrfctx of the
\* session's rasterframes context
RasterFrame(jdf, session) ==
    [kind |-> "RasterFrame", jdf |-> jdf, jrfctx |-> session]

\* what the remote engine may answer: a value, or a failure
Answer(v) == [ok |-> TRUE, val |-> v]
Failure == [ok |-> FALSE, val |-> None]

ColumnRefs == {JavaObject(i) : i \in 1..NumCols}
ColumnLists == {PyList(<<>>)} \cup {PyList(<<c>>) : c \in ColumnRefs}
                  \cup {PyList(<<c, d>>) : c \in ColumnRefs, d \in ColumnRefs}

\* one invocation of a method of a _jrfctx handle on a dataset handle, with
\* what the engine answered
JrfctxCall(ctx, method, jdf, r) ==
    [via |-> Direct, ctx |-> ctx, method |-> method, jdf |-> jdf, ok |-> r.ok,
     answer |-> r.val]

\* an accessor on self._jrfctx, whose answer goes through wrap
OnCaptured(f, method, r, wrapped) ==
    IF r.ok THEN Outcome(wrapped, NoExc, <<JrfctxCall(f.jrfctx, method, f.jdf, r)>>)
    ELSE Outcome(None, "RemoteCallError", <<JrfctxCall(f.jrfctx, method, f.jdf, r)>>)

\* RasterFrame.tileColumns
tileColumns(f, r) ==
    OnCaptured(f, "tileColumns", r,
               IF r.ok THEN PyList([i \in 1..Len(r.val.items) |-> Column(r.val.items[i])])
               ELSE None)

\* RasterFrame.spatialKeyColumn
spatialKeyColumn(f, r) == OnCaptured(f, "spatialKeyColumn", r, Column(r.val))

\* temporalKeyColumn wrapping whatever the engine answered
temporalKeyColumn_always_wraps(f, r) ==
    OnCaptured(f, "temporalKeyColumn", r, Column(r.val))

\* RasterFrame.temporalKeyColumn: col and Column(col)
temporalKeyColumn(f, r) ==
    OnCaptured(f, "temporalKeyColumn", r,
               IF Truthy(r.val) THEN Column(r.val) ELSE r.val)

\* RasterFrame.tileLayerMetadata: json.loads(str(answer))
tileLayerMetadata(f, r) ==
    OnCaptured(f, "tileLayerMetadata", r, [kind |-> "dict", of |-> r.val])

\* RasterFrame.toIntRaster
toIntRaster(f, r) == OnCaptured(f, "toIntRaster", r, r.val)

\* RasterFrame.toDoubleRaster
toDoubleRaster(f, r) == OnCaptured(f, "toDoubleRaster", r, r.val)

\* an accessor on the active context that falls back on self._jrfctx when
\* no context is bound
OnActive_fallback(f, act, method, r) ==
    LET ctx == IF act = NoCtx THEN f.jrfctx ELSE act
    IN IF r.ok
       THEN Outcome(RasterFrame(r.val, ctx), NoExc, <<JrfctxCall(ctx, method, f.jdf, r)>>)
       ELSE Outcome(None, "RemoteCallError", <<JrfctxCall(ctx, method, f.jdf, r)>>)

\* an accessor on the active context that wraps the answer with the
\* receiver's own context
OnActive_receiver(f, act, method, r) ==
    IF act = NoCtx THEN Outcome(None, "AttributeError", <<>>)
    ELSE IF r.ok
    THEN Outcome(RasterFrame(r.val, f.jrfctx), NoExc, <<JrfctxCall(act, method, f.jdf, r)>>)
    ELSE Outcome(None, "RemoteCallError", <<JrfctxCall(act, method, f.jdf, r)>>)

\* ctx = SparkContext._active_spark_context._rf_context
\* df = ctx._jrfctx.<method>(self._jdf, ...)
\* return RasterFrame(df, ctx._spark_session)
OnActive(f, act, method, r) ==
    IF act = NoCtx THEN Outcome(None, "AttributeError", <<>>)
    ELSE IF r.ok
    THEN Outcome(RasterFrame(r.val, act), NoExc, <<JrfctxCall(act, method, f.jdf, r)>>)
    ELSE Outcome(None, "RemoteCallError", <<JrfctxCall(act, method, f.jdf, r)>>)

\* RasterFrame.spatialJoin: the other frame's dataset handle is the second
\* argument of the remote method
spatialJoin(f, other, act, r) ==
    LET o == OnActive(f, act, "spatialJoin", r)
    IN Outcome(o.ret, o.exc,
               [i \in 1..Len(o.calls) |-> o.calls[i] @@ [other |-> other.jdf]])

\* the accessors on self._jrfctx and those on the active context
CapturedOps == {"tileColumns", "spatialKeyColumn", "temporalKeyColumn",
                "tileLayerMetadata", "toIntRaster", "toDoubleRaster"}
ActiveOps == {"spatialJoin", "withBounds", "withCenter", "withCenterLatLng",
              "withSpatialIndex"}
CodecOps == {"serialize", "deserialize"}

Returns(o, method) ==
    /\ ret' = o.ret
    /\ exc' = o.exc
    /\ calls' = o.calls
    /\ op' = method
    /\ UNCHANGED <<frame, active, ctVars, codecVars>>

TileColumns ==
    /\ frame.kind = "RasterFrame"
    /\ \E r \in {Answer(l) : l \in ColumnLists} \cup {Failure} :
        Returns(tileColumns(frame, r), "tileColumns")

SpatialKeyColumn ==
    /\ frame.kind = "RasterFrame"
    /\ \E r \in {Answer(c) : c \in ColumnRefs} \cup {Failure} :
        Returns(spatialKeyColumn(frame, r), "spatialKeyColumn")

TemporalKeyColumn ==
    /\ frame.kind = "RasterFrame"
    /\ \E r \in {Answer(c) : c \in ColumnRefs \cup {None}} \cup {Failure} :
        Returns(temporalKeyColumn(frame, r), "temporalKeyColumn")

TileLayerMetadata ==
    /\ frame.kind = "RasterFrame"
    /\ \E r \in {Answer(JavaObject(i)) : i \in 1..NumCols} \cup {Failure} :
        Returns(tileLayerMetadata(frame, r), "tileLayerMetadata")

ToIntRaster ==
    /\ frame.kind = "RasterFrame"
    /\ \E r \in {Answer(JavaObject(i)) : i \in 1..NumCols} \cup {Failure} :
        Returns(toIntRaster(frame, r), "toIntRaster")

ToDoubleRaster ==
    /\ frame.kind = "RasterFrame"
    /\ \E r \in {Answer(JavaObject(i)) : i \in 1..NumCols} \cup {Failure} :
        Returns(toDoubleRaster(frame, r), "toDoubleRaster")

FrameAnswers == {Answer(j) : j \in JDFs} \cup {Failure}

SpatialJoin ==
    /\ frame.kind = "RasterFrame"
    /\ \E r \in FrameAnswers, other \in {RasterFrame(j, c) : j \in JDFs, c \in Contexts} :
        Returns(spatialJoin(frame, other, active, r), "spatialJoin")

WithBounds ==
    /\ frame.kind = "RasterFrame"
    /\ \E r \in FrameAnswers :
        Returns(OnActive(frame, active, "withBounds", r), "withBounds")

WithCenter ==
    /\ frame.kind = "RasterFrame"
    /\ \E r \in FrameAnswers :
        Returns(OnActive(frame, active, "withCenter", r), "withCenter")

WithCenterLatLng ==
    /\ frame.kind = "RasterFrame"
    /\ \E r \in FrameAnswers :
        Returns(OnActive(frame, active, "withCenterLatLng", r), "withCenterLatLng")

WithSpatialIndex ==
    /\ frame.kind = "RasterFrame"
    /\ \E r \in FrameAnswers :
        Returns(OnActive(frame, active, "withSpatialIndex", r), "withSpatialIndex")

(***************************************************************************)
(* Specifications                                                          *)
(***************************************************************************)
Frames == {RasterFrame(j, c) : j \in JDFs, c \in Contexts}

\* the tiles of the boundary specification: the one-row tiles of ones
BoundaryTiles ==
    {t \in Tiles : /\ Shape(t.cells)[1] = 1
                   /\ \A j \in 1..Shape(t.cells)[2] : t.cells.data[1][j] = 1}

InitCellType ==
    /\ name \in CellTypeNames
    /\ dtype_result = NotRun
    /\ tile = None /\ pc = "idle" /\ record = None /\ datum = None /\ result = None
    /\ frame = None /\ ret = None
    /\ active = NoCtx /\ op = "none" /\ calls = <<>> /\ exc = NoExc

InitCodec ==
    /\ name = <<>> /\ dtype_result = NotRun
    /\ tile \in Tiles
    /\ pc = "tile" /\ record = None /\ datum = None /\ result = None
    /\ frame = None /\ ret = None
    /\ active \in Contexts \cup {NoCtx}
    /\ op = "none" /\ calls = <<>> /\ exc = NoExc

InitFrame ==
    /\ name = <<>> /\ dtype_result = NotRun
    /\ tile = None /\ pc = "idle" /\ record = None /\ datum = None /\ result = None
    /\ frame \in Frames
    /\ ret = None
    /\ active \in Contexts \cup {NoCtx}
    /\ op = "none" /\ calls = <<>> /\ exc = NoExc

InitBoundary ==
    /\ name = <<>> /\ dtype_result = NotRun
    /\ tile \in BoundaryTiles
    /\ pc = "tile" /\ record = None /\ datum = None /\ result = None
    /\ frame \in Frames
    /\ ret = None
    /\ active \in Contexts \cup {NoCtx}
    /\ op = "none" /\ calls = <<>> /\ exc = NoExc

NextCellType == Resolve

NextCodec ==
    \/ Serialize
    \/ RowFromSqlType
    \/ RowFromCaller
    \/ Deserialize

NextFrame ==
    \/ TileColumns
    \/ SpatialKeyColumn
    \/ TemporalKeyColumn
    \/ TileLayerMetadata
    \/ SpatialJoin
    \/ ToIntRaster
    \/ ToDoubleRaster
    \/ WithBounds
    \/ WithCenter
    \/ WithCenterLatLng
    \/ WithSpatialIndex

NextBoundary == NextCodec \/ NextFrame

SpecCellType == InitCellType /\ [][NextCellType]_vars
SpecCodec == InitCodec /\ [][NextCodec]_vars
SpecFrame == InitFrame /\ [][NextFrame]_vars
SpecBoundary == InitBoundary /\ [][NextBoundary]_vars

(***************************************************************************)
(* Properties                                                              *)
(***************************************************************************)
GatewayFailed == exc \in {"RemoteCallError", "NoActiveContext"}

\* C1: deserialize applied to the row of serialize(tile), named after
\* TileUDT.sqlType, gives a Tile with the tile's cells, in the same shape and
\* row-major positions, and the tile's cell type, when the gateway answers.
C1_RoundTrip ==
    (/\ op = "deserialize"
     /\ datum = FromInternal(sqlType, record)
     /\ ~GatewayFailed)
        => /\ exc = NoExc
           /\ result.kind = "Tile"
           /\ result.cells.data = tile.cells.data
           /\ result.cell_type = tile.cell_type

\* C2: deserialize finds every field it reads in a row that conforms to
\* TileUDT.sqlType: it raises no AttributeError on such a row.
C2_ReadsDeclaredFields ==
    (op = "deserialize" /\ Conforms(datum, sqlType)) => exc # "AttributeError"

\* C3: dimensions() is cols then rows of the (rows, cols) buffer, and the
\* serialized row carries that pair as cell_context.dimensions.
C3_Dimensions ==
    tile.kind = "Tile" =>
        /\ dimensions(tile) = <<Len(tile.cells.data[1]), Len(tile.cells.data)>>
        /\ record.kind = "list" =>
               record.items[1].items[2]
                   = PyList(<<Len(tile.cells.data[1]), Len(tile.cells.data)>>)

C3_Witness ==
    /\ record.kind = "list"
    /\ Shape(tile.cells) = <<1, 2>>
    /\ record.items[1].items[2].items = <<2, 1>>

\* C4: a cell-type name holding the user-defined-NoData marker "ud", with or
\* without trailing "raw" suffixes, resolves to the not-implemented error and
\* never to an element type.
C4_UserDefinedNoData ==
    (dtype_result # NotRun /\ Contains(name, UD)) => dtype_result = UnsupportedFeature

C4_Witness ==
    /\ dtype_result = UnsupportedFeature
    /\ EndsWith(name, RAW \o RAW)

\* C5: a supported base name followed by k >= 1 "raw" suffixes resolves to
\* the element type the base name resolves to.
C5_RawSuffix ==
    \A b \in NumpyNames : \A k \in 1..MaxSuffix :
        (dtype_result # NotRun /\ name = b \o RawRep(k))
            => /\ dtype_result.kind = "dtype"
               /\ dtype_result = to_numpy_dtype(b)

C5_Witness ==
    /\ name = INT8 \o RawRep(2)
    /\ dtype_result = np_dtype(INT8)

C8_ReceiverContext ==
    (op \in ActiveOps /\ exc = NoExc)
        => /\ ret.kind = "RasterFrame"
           /\ calls[1].jdf = frame.jdf
           /\ ret.jrfctx = frame.jrfctx

\* C8: a Frame-returning accessor invokes the remote operation once, on the
\* active context's handle and the receiver's dataset handle, and returns a
\* RasterFrame of the answered dataset with the active context's engine
\* context.
C8_ActiveContext ==
    (op \in ActiveOps /\ exc = NoExc)
        => /\ ret.kind = "RasterFrame"
           /\ Len(calls) = 1
           /\ calls[1].method = op
           /\ calls[1].ctx = active
           /\ calls[1].jdf = frame.jdf
           /\ ret.jdf = calls[1].answer
           /\ ret.jrfctx = active

C8_Witness ==
    /\ op \in ActiveOps
    /\ exc = NoExc
    /\ ret.kind = "RasterFrame"
    /\ ret.jrfctx = active
    /\ ret.jrfctx # frame.jrfctx

\* C9: temporalKeyColumn returns None, without error, when the engine
\* answers no column, and the answered column wrapped as a Column otherwise.
C9_TemporalKeyColumn ==
    (op = "temporalKeyColumn" /\ calls[1].ok)
        => /\ exc = NoExc
           /\ calls[1].answer = None => ret = None
           /\ calls[1].answer # None => ret = Column(calls[1].answer)

C9_Witness ==
    /\ op = "temporalKeyColumn"
    /\ calls[1].ok
    /\ calls[1].answer = None
    /\ ret = None
    /\ exc = NoExc

\* C10: when the gateway call of serialize or deserialize fails, it was the
\* only remote invocation, the failure is what the operation raised, and no
\* row and no Tile was returned.
C10_GatewayFailure ==
    (op \in CodecOps /\ \E i \in 1..Len(calls) : ~calls[i].ok)
        => /\ Len(calls) = 1
           /\ exc = "RemoteCallError"
           /\ op = "serialize" => record = None
           /\ op = "deserialize" => result = None

C10_Witness ==
    /\ op = "serialize"
    /\ pc = "done"
    /\ Len(calls) = 1
    /\ ~calls[1].ok
    /\ exc = "RemoteCallError"
    /\ record = None

====
